---- MODULE Spec2Model ----
(***************************************************************************)
(* Model of the Ansible module kube.py: one run of main() on a KubeManager *)
(* built from the module parameters.  The kubectl process is the           *)
(* environment: each run_command call draws its exit code, stdout and      *)
(* stderr from small sets.  Command vectors are sequences of strings;      *)
(* process output is a sequence of one-character strings, so that split(), *)
(* splitlines(), re.findall() and the `in' substring test are computed.    *)
(***************************************************************************)
EXTENDS Integers, Sequences, FiniteSets, TLC

\* ------------------------------------------------------------------ bounds
MaxResource == 2
MaxKeyvars == 2
MaxFiles == 2

\* ------------------------------------------------- text as character lists
SP == " "
NL == "\n"

IsSpace(c) == c \in {SP, NL}

RECURSIVE FlattenWith(_, _)
\* sep.join(parts) for character lists
FlattenWith(sep, parts) ==
  IF parts = <<>> THEN <<>>
  ELSE IF Len(parts) = 1 THEN parts[1]
  ELSE parts[1] \o sep \o FlattenWith(sep, Tail(parts))

Words(ws) == FlattenWith(<<SP>>, ws)
Lines(ls) == FlattenWith(<<NL>>, ls)

w_created == <<"c","r","e","a","t","e","d">>
w_deleted == <<"d","e","l","e","t","e","d">>
w_labeled == <<"l","a","b","e","l","e","d">>
w_modified == <<"m","o","d","i","f","i","e","d">>
w_unchanged == <<"u","n","c","h","a","n","g","e","d">>
w_nginx == <<"n","g","i","n","x">>
w_rc == <<"r","c">>
w_a == <<"a">>
w_1 == <<"1">>
w_not == <<"n","o","t">>
w_found == <<"f","o","u","n","d">>
w_refused == <<"r","e","f","u","s","e","d">>

RECURSIVE SplitFrom(_, _, _)
\* str.split(): maximal runs of non-whitespace characters
SplitFrom(s, i, cur) ==
  IF i > Len(s) THEN (IF cur = <<>> THEN <<>> ELSE <<cur>>)
  ELSE IF IsSpace(s[i])
       THEN (IF cur = <<>> THEN <<>> ELSE <<cur>>) \o SplitFrom(s, i + 1, <<>>)
       ELSE SplitFrom(s, i + 1, Append(cur, s[i]))

split(s) == SplitFrom(s, 1, <<>>)

RECURSIVE SplitLinesFrom(_, _, _)
\* str.splitlines(): lines without their terminator, no empty last line
SplitLinesFrom(s, i, cur) ==
  IF i > Len(s) THEN (IF cur = <<>> THEN <<>> ELSE <<cur>>)
  ELSE IF s[i] = NL
       THEN <<cur>> \o SplitLinesFrom(s, i + 1, <<>>)
       ELSE SplitLinesFrom(s, i + 1, Append(cur, s[i]))

splitlines(s) == SplitLinesFrom(s, 1, <<>>)

\* x in item, for strings
Within(x, item) ==
  \E i \in 1..(Len(item) + 1) :
     /\ i + Len(x) - 1 <= Len(item)
     /\ SubSeq(item, i, i + Len(x) - 1) = x

RECURSIVE FindAllFrom(_, _, _)
\* re.findall for a pattern without metacharacters: the non-overlapping
\* occurrences of the pattern, left to right
FindAllFrom(pat, s, i) ==
  IF i + Len(pat) - 1 > Len(s) THEN <<>>
  ELSE IF SubSeq(s, i, i + Len(pat) - 1) = pat
       THEN <<pat>> \o FindAllFrom(pat, s, i + Len(pat))
       ELSE FindAllFrom(pat, s, i + 1)

_filter(pattern, string) == FindAllFrom(pattern, string, 1)

LastTwo(toks) ==
  IF Len(toks) <= 2 THEN toks ELSE SubSeq(toks, Len(toks) - 1, Len(toks))

\* ' '.join(err.split()[-2:]) == 'not found'
EndsNotFound(err) == Words(LastTwo(split(err))) = Words(<<w_not, w_found>>)


RECURSIVE JoinComma(_)
\* ','.join(names) for a list of strings
JoinComma(names) ==
  IF names = <<>> THEN ""
  ELSE IF Len(names) = 1 THEN names[1]
  ELSE names[1] \o "," \o JoinComma(Tail(names))

\* ------------------------------------------------------------ input pools
States == {"present", "absent", "latest", "reloaded"}
Commands == {"apply", "get", "delete"}
ResourcePool == <<"rc", "svc", "po", "ns">>
KeyvarPool == <<"app=web", "tier=db", "env=qa", "zone=a">>
FilePool == <<"/tmp/a.yml", "/tmp/b.yml", "/tmp/c.yml", "/tmp/d.yml">>
Prefix(pool, n) == [i \in 1..n |-> pool[((i - 1) % Len(pool)) + 1]]
Patterns == {w_nginx, w_created}

\* optional string / flag parameters that only add a token to the vector
FlagsUnset ==
  [kubeconfig |-> "", namespace |-> "", label |-> "", server |-> "",
   ignore |-> FALSE, all |-> FALSE, log_level |-> 0]
FlagProfiles ==
  { FlagsUnset,
    [kubeconfig |-> "/etc/kube.conf", namespace |-> "prod", label |-> "app=web",
     server |-> "https://k8s:6443", ignore |-> TRUE, all |-> FALSE, log_level |-> 2],
    [kubeconfig |-> "", namespace |-> "", label |-> "", server |-> "",
     ignore |-> FALSE, all |-> TRUE, log_level |-> 0] }

\* what one kubectl process can answer
out_empty == <<>>
out_get == Words(<<w_nginx, w_1>>) \o <<NL>>
out_created == Words(<<w_rc, w_nginx, w_created>>) \o <<NL>>
out_two == Lines(<<Words(<<w_nginx, w_unchanged>>), Words(<<w_nginx, w_created>>)>>) \o <<NL>>
err_empty == <<>>
err_notfound == Words(<<w_rc, w_nginx, w_not, w_found>>) \o <<NL>>
err_refused == Words(<<w_a, w_refused>>) \o <<NL>>

Outcomes ==
  { [raised |-> TRUE, rc |-> 0, out |-> out_empty, err |-> err_empty] }
  \cup { [raised |-> FALSE, rc |-> 0, out |-> o, err |-> err_empty] :
           o \in {out_empty, out_get, out_created, out_two} }
  \cup { [raised |-> FALSE, rc |-> 1, out |-> o, err |-> e] :
           o \in {out_empty, out_created}, e \in {err_notfound, err_refused} }

\* ------------------------------------------------------------------ state
VARIABLES
  state,          \* module.params['state']
  command, resource, name, keyvars, filter, filename,
  kubeconfig, namespace, label, server, ignore, overwrite, force, all, log_level,
  isdir,          \* os.path.isdir(filename[0])
  results,        \* self.results
  py3,            \* the interpreter: filter() returns a list (2) or an iterator (3)
  pc,             \* position of the run
  check,          \* the argument of create()
  existsRet,      \* what _exists() returned
  calls,          \* every run_command call so far, with what it answered
  before,         \* self.results when the last run_command was called
  failed          \* the fail_json message (or the uncaught exception) ending the run

params == <<state, resource, name, keyvars, filter, filename, kubeconfig, namespace,
            label, server, ignore, overwrite, force, all, log_level, isdir, py3>>
vars == <<params, command, results, pc, check, existsRet, calls, before, failed>>

kubectl == "kubectl"
base_cmd == <<kubectl>>
safe_commands == {"api-versions", "cluster-info", "describe", "explain", "get", "logs", "version"}
changed_words == {w_created, w_deleted, w_labeled, w_modified}

NoFail == [msg |-> "", detail |-> <<>>]
InitResults == [changed |-> FALSE, meta |-> <<>>, msg |-> ""]

\* the parameters that decide the control flow, with a plain command vector
InitControl ==
  /\ state \in States
  /\ command \in Commands
  /\ filter \in {<<>>} \cup Patterns
  /\ force \in BOOLEAN
  /\ py3 \in BOOLEAN
  /\ \/ /\ resource \in {Prefix(ResourcePool, n) : n \in 0..MaxResource}
        /\ filename = <<>>
        /\ isdir = FALSE
        /\ name = IF resource = <<>> THEN "" ELSE "nginx"
     \/ /\ resource = <<>>
        /\ filename \in {Prefix(FilePool, n) : n \in 1..MaxFiles}
        /\ isdir \in BOOLEAN
        /\ name = ""
  /\ keyvars = <<>>
  /\ overwrite = FALSE
  /\ \E f \in {FlagsUnset} :
        /\ kubeconfig = f.kubeconfig /\ namespace = f.namespace /\ label = f.label
        /\ server = f.server /\ ignore = f.ignore /\ all = f.all
        /\ log_level = f.log_level

\* the parameters that decide the command vector, with a plain control flow
InitShape ==
  /\ state \in {"present", "absent", "latest"}
  /\ command \in {"apply", "get"}
  /\ filter = <<>>
  /\ force \in BOOLEAN
  /\ py3 = FALSE
  /\ \/ /\ resource \in {Prefix(ResourcePool, n) : n \in 0..MaxResource}
        /\ filename = <<>>
        /\ isdir = FALSE
        /\ name \in {"", "nginx"}
     \/ /\ resource = <<>>
        /\ filename \in {Prefix(FilePool, n) : n \in 1..MaxFiles}
        /\ isdir = FALSE
        /\ name = ""
  /\ keyvars \in {Prefix(KeyvarPool, n) : n \in 0..MaxKeyvars}
  /\ overwrite \in BOOLEAN
  /\ \E f \in FlagProfiles :
        /\ kubeconfig = f.kubeconfig /\ namespace = f.namespace /\ label = f.label
        /\ server = f.server /\ ignore = f.ignore /\ all = f.all
        /\ log_level = f.log_level

Init ==
  /\ (InitControl \/ InitShape)
  /\ results = InitResults
  /\ pc = "main"
  /\ check = TRUE
  /\ existsRet = FALSE
  /\ calls = <<>>
  /\ before = InitResults
  /\ failed = NoFail


\* --------------------------------------------------------------- _flags
\* the test of line 199 if it also let a bare name through
NoTarget_unlessNamed == filename = <<>> /\ resource = <<>> /\ name = ""

\* line 199: neither a file nor a resource
NoTarget == filename = <<>> /\ resource = <<>>

Opt(cond, token) == IF cond THEN <<token>> ELSE <<>>

\* _flags if the probe listed every resource type, as the verb does
_flags_allResources(cmd, exists) ==
  LET c == cmd
           \o resource
           \o Opt(name # "", name)
           \o (IF keyvars # <<>> /\ ~exists THEN keyvars ELSE <<>>)
           \o Opt(filename # <<>>, "--filename=" \o JoinComma(filename))
           \o Opt(kubeconfig # "", "--kubeconfig=" \o kubeconfig)
           \o Opt(namespace # "", "--namespace=" \o namespace)
           \o Opt(label # "", "--selector=" \o label)
           \o Opt(server # "", "--server=" \o server)
           \o Opt(ignore, "--ignore-not-found")
           \o Opt(overwrite, "--overwrite")
           \o Opt(force, "--force")
           \o Opt(all, "--all")
           \o Opt(log_level # 0, "--v=" \o ToString(log_level))
  IN c \o Opt(c[1] = "get", "--no-headers")

\* lines 201-233: the vector _flags returns for cmd when it does not fail
_flags(cmd, exists) ==
  LET c == cmd
           \o (IF resource # <<>>
               THEN (IF exists THEN <<resource[1]>> ELSE resource)
               ELSE <<>>)
           \o Opt(name # "", name)
           \o (IF keyvars # <<>> /\ ~exists THEN keyvars ELSE <<>>)
           \o Opt(filename # <<>>, "--filename=" \o JoinComma(filename))
           \o Opt(kubeconfig # "", "--kubeconfig=" \o kubeconfig)
           \o Opt(namespace # "", "--namespace=" \o namespace)
           \o Opt(label # "", "--selector=" \o label)
           \o Opt(server # "", "--server=" \o server)
           \o Opt(ignore, "--ignore-not-found")
           \o Opt(overwrite, "--overwrite")
           \o Opt(force, "--force")
           \o Opt(all, "--all")
           \o Opt(log_level # 0, "--v=" \o ToString(log_level))
  IN c \o Opt(c[1] = "get", "--no-headers")

\* -------------------------------------------------------------- _execute
\* line 184: the truth value of filter(lambda item: any(x in item for x in
\* out.split()), changed_words)
ChangedWordSeen(out) ==
  IF py3 THEN TRUE
  ELSE \E item \in changed_words :
          \E i \in 1..Len(split(out)) : Within(split(out)[i], item)

\* the classification if the filter were not applied to the answer
Classify_unfiltered(self_command, res, out) ==
  LET meta == splitlines(out)
  IN [changed |-> IF meta # <<>> /\ ChangedWordSeen(out) THEN TRUE ELSE res.changed,
      meta |-> meta,
      msg |-> "successfully ran kubectl (" \o self_command \o ") command"]

\* lines 180-186: the results after a classified answer, self_command being
\* self.command when _execute runs
Classify(self_command, res, out) ==
  IF filter # <<>>
  THEN [res EXCEPT !.meta = _filter(filter, out)]
  ELSE LET meta == splitlines(out)
       IN [changed |-> IF meta # <<>> /\ ChangedWordSeen(out) THEN TRUE ELSE res.changed,
           meta |-> meta,
           msg |-> "successfully ran kubectl (" \o self_command \o ") command"]

\* _execute without the directory carve-out of line 175
_execute_noDirMode(self_command, res, cmd, exists, o) ==
  LET args == base_cmd \o cmd IN
  IF o.raised
  THEN [fail |-> [msg |-> "error running kubectl command", detail |-> <<args>>],
        results |-> res]
  ELSE IF o.rc # 0 /\ ~exists
  THEN [fail |-> [msg |-> "error running kubectl command (rc)",
                  detail |-> <<args, o.rc, o.out, o.err>>],
        results |-> res]
  ELSE IF o.rc # 0 /\ exists /\ EndsNotFound(o.err)
  THEN [fail |-> NoFail, results |-> res]
  ELSE [fail |-> NoFail, results |-> Classify(self_command, res, o.out)]

\* lines 172-188: what _execute does with the answer o of run_command:
\* the fail_json message ending the run, or the results it leaves
_execute(self_command, res, cmd, exists, o) ==
  LET args == base_cmd \o cmd IN
  IF o.raised
  THEN [fail |-> [msg |-> "error running kubectl command", detail |-> <<args>>],
        results |-> res]
  ELSE IF o.rc # 0 /\ ~(exists \/ isdir)
  THEN [fail |-> [msg |-> "error running kubectl command (rc)",
                  detail |-> <<args, o.rc, o.out, o.err>>],
        results |-> res]
  ELSE IF o.rc # 0 /\ exists /\ EndsNotFound(o.err)
  THEN [fail |-> NoFail, results |-> res]
  ELSE [fail |-> NoFail, results |-> Classify(self_command, res, o.out)]

Call(cmd, exists, o) ==
  [args |-> base_cmd \o cmd, exists |-> exists, raised |-> o.raised,
   rc |-> o.rc, out |-> o.out, err |-> o.err]

\* fail_json: the run ends with a message and returns no results
Fail(f) ==
  /\ pc' = "failed"
  /\ failed' = f

\* _flags, then _execute, of the verb: the tail of create() and delete()
RunVerb(self_command, verb, exists, next) ==
  IF NoTarget
  THEN /\ Fail([msg |-> "filename or resource required", detail |-> <<>>])
       /\ UNCHANGED <<results, calls, before>>
  ELSE \E o \in Outcomes :
         LET cmd == _flags(<<verb>>, exists)
             r == _execute(self_command, results, cmd, exists, o)
         IN /\ calls' = Append(calls, Call(cmd, exists, o))
            /\ before' = results
            /\ results' = r.results
            /\ IF r.fail # NoFail
               THEN Fail(r.fail)
               ELSE pc' = next /\ UNCHANGED failed

\* --------------------------------------------------------------- actions
\* lines 282-292: main dispatches on the target state
Main ==
  /\ pc = "main"
  /\ UNCHANGED <<params, command, results, existsRet, calls, before>>
  /\ CASE state = "present" -> pc' = "create" /\ check' = TRUE /\ UNCHANGED failed
       [] state = "absent" -> pc' = "delete" /\ UNCHANGED <<check, failed>>
       [] state = "latest" ->
            \* line 289 assigns to an attribute of `self', a name main() lacks
            /\ Fail([msg |-> "NameError: name 'self' is not defined", detail |-> <<>>])
            /\ UNCHANGED check
       [] OTHER ->
            /\ Fail([msg |-> "Unrecognized state", detail |-> <<state>>])
            /\ UNCHANGED check

\* lines 239-241: create() up to the call of _exists()
Create ==
  /\ pc = "create"
  /\ UNCHANGED <<params, command, results, check, existsRet, calls, before>>
  /\ IF command = "delete"
     THEN Fail([msg |-> "use state=absent instead of command=delete", detail |-> <<>>])
     ELSE /\ pc' = IF check THEN "create_exists" ELSE "create_run"
          /\ UNCHANGED failed

\* lines 190-196: the probe, called from create() or delete()
Exists ==
  /\ pc \in {"create_exists", "delete_exists"}
  /\ RunVerb(command, "get", TRUE, IF pc = "create_exists" THEN "create_run" ELSE "delete_run")
  /\ existsRet' = IF pc' = "failed" THEN existsRet ELSE results'.meta # <<>>
  /\ UNCHANGED <<params, command, check>>

\* lines 241-245: create() after the probe
CreateRun ==
  /\ pc = "create_run"
  /\ UNCHANGED <<params, command, check, existsRet>>
  /\ IF check /\ existsRet /\ command \notin safe_commands
     THEN pc' = "exit_json" /\ UNCHANGED <<results, calls, before, failed>>
     ELSE RunVerb(command, command, FALSE, "exit_json")

\* line 248: delete() up to the call of _exists()
Delete ==
  /\ pc = "delete"
  /\ pc' = IF ~force THEN "delete_exists" ELSE "delete_run"
  /\ UNCHANGED <<params, command, results, check, existsRet, calls, before, failed>>

\* delete() after the probe if line 248 tested the probe the wrong way round
DeleteRun_inverted ==
  /\ pc = "delete_run"
  /\ UNCHANGED <<params, check, existsRet>>
  /\ IF ~force /\ existsRet
     THEN pc' = "exit_json" /\ UNCHANGED <<command, results, calls, before, failed>>
     ELSE /\ command' = "delete"
          /\ RunVerb("delete", "delete", FALSE, "exit_json")

\* lines 248-253: delete() after the probe
DeleteRun ==
  /\ pc = "delete_run"
  /\ UNCHANGED <<params, check, existsRet>>
  /\ IF ~force /\ ~existsRet
     THEN pc' = "exit_json" /\ UNCHANGED <<command, results, calls, before, failed>>
     ELSE /\ command' = "delete"
          /\ RunVerb("delete", "delete", FALSE, "exit_json")

\* line 293: the results go back to the caller
ExitJson ==
  /\ pc = "exit_json"
  /\ pc' = "done"
  /\ UNCHANGED <<params, command, results, check, existsRet, calls, before, failed>>

Next ==
  \/ Main
  \/ Create
  \/ Exists
  \/ CreateRun
  \/ Delete
  \/ DeleteRun
  \/ ExitJson

Spec == Init /\ [][Next]_vars

\* ---------------------------------------------------------------- claims
Range(f) == {f[i] : i \in DOMAIN f}
Vector(c) == Tail(c.args)
Last == calls[Len(calls)]
Ended == pc \in {"done", "failed"}
\* the probe ran and _exists() returned
ProbeReturned == calls # <<>> /\ calls[1].exists /\ ~calls[1].raised
\* the pattern occurs somewhere in the text
HasMatch(pat, s) ==
  \E i \in 1..Len(s) : i + Len(pat) - 1 <= Len(s) /\ SubSeq(s, i, i + Len(pat) - 1) = pat
VerbCalls == {i \in 1..Len(calls) : ~calls[i].exists}

\* C1: a run with state=latest ends by returning the results, after forcing
\* overwrite on, without any probe, and after exactly one call of the
\* configured verb whose vector holds --overwrite.
C1_LatestRunsVerbOnce ==
  (state = "latest" /\ Ended) =>
     /\ pc = "done"
     /\ overwrite
     /\ Len(calls) = 1
     /\ ~calls[1].exists
     /\ Vector(calls[1])[1] = command
     /\ "--overwrite" \in Range(Vector(calls[1]))

\* C2: with state=present and a verb outside the safe set, once the probe has
\* reported the resource as existing the verb is never called and the results
\* returned have changed = false, whatever the probe printed.
C2_PresentIdempotent ==
  (state = "present" /\ command \notin safe_commands /\ ProbeReturned /\ existsRet) =>
     /\ VerbCalls = {}
     /\ pc = "done" => ~results.changed

\* C3: with state=absent and force=false, once the probe has come back with an
\* empty meta, the probe is the only process of the run, no delete is called,
\* and the results returned have changed = false and meta = [].
C3_AbsentMissingNoop ==
  (state = "absent" /\ ~force /\ ProbeReturned /\ ~existsRet) =>
     /\ Len(calls) = 1
     /\ Vector(calls[1])[1] = "get"
     /\ pc \in {"delete_run", "exit_json", "done"}
     /\ results.changed = FALSE
     /\ results.meta = <<>>

C3_Witness ==
  /\ state = "absent" /\ ~force /\ ProbeReturned /\ ~existsRet
  /\ pc = "done"

\* C4 as stated: with neither a resource nor a file, a present or absent run
\* ends with 'filename or resource required' and no process spawned.
C4_AlwaysAssemblyError ==
  (filename = <<>> /\ resource = <<>> /\ state \in {"present", "absent"}) =>
     /\ calls = <<>>
     /\ pc \notin {"exit_json", "done"}
     /\ pc = "failed" => failed.msg = "filename or resource required"

\* C4 amended: with neither a resource nor a file, a present or absent run
\* spawns no process and ends in a configuration error: 'filename or resource
\* required' from _flags, except for state=present with the verb delete, which
\* create() rejects first with 'use state=absent instead of command=delete'.
C4_ConfigErrorNoProcess ==
  (filename = <<>> /\ resource = <<>> /\ state \in {"present", "absent"}) =>
     /\ calls = <<>>
     /\ pc \notin {"exit_json", "done"}
     /\ pc = "failed" =>
          failed.msg = IF state = "present" /\ command = "delete"
                       THEN "use state=absent instead of command=delete"
                       ELSE "filename or resource required"

C4_Witness ==
  /\ filename = <<>> /\ resource = <<>> /\ state \in {"present", "absent"}
  /\ pc = "failed"
  /\ failed.msg = "filename or resource required"

\* C5: a probe outside directory mode that exits non-zero with a stderr not
\* ending in 'not found' ends the run in error.
C5_ProbeHardError ==
  \A i \in 1..Len(calls) :
     (/\ calls[i].exists /\ ~calls[i].raised /\ ~isdir
      /\ calls[i].rc # 0 /\ ~EndsNotFound(calls[i].err)) => pc = "failed"

\* C6: when the verb (not the probe) exits non-zero, outside directory mode the
\* run fails with the message carrying command, exit code, stdout and stderr
\* and returns no results; in directory mode it does not fail and leaves the
\* results an exit code of zero with the same output would leave.
C6_VerbNonZeroExit ==
  (calls # <<>> /\ ~Last.exists /\ ~Last.raised /\ Last.rc # 0) =>
     IF ~isdir
     THEN /\ pc = "failed"
          /\ failed.msg = "error running kubectl command (rc)"
          /\ failed.detail = <<Last.args, Last.rc, Last.out, Last.err>>
     ELSE /\ pc \in {"exit_json", "done"}
          /\ failed = NoFail
          /\ results = _execute(command, before, Vector(Last), FALSE,
                                 [raised |-> FALSE, rc |-> 0,
                                  out |-> Last.out, err |-> Last.err]).results

C6_Witness ==
  /\ calls # <<>> /\ ~Last.exists /\ ~Last.raised /\ Last.rc # 0
  /\ isdir
  /\ pc = "done"
  /\ results.changed

\* C7: after every classified answer, with or without a filter: a non-empty
\* meta and a stdout token that is a vocabulary word give changed = true, and
\* without such a token the classification leaves changed as it was.
C7_ChangedDetection ==
  (/\ calls # <<>> /\ ~Last.raised /\ pc # "failed"
   /\ ~(Last.rc # 0 /\ Last.exists /\ EndsNotFound(Last.err))) =>
     LET vocab == \E i \in 1..Len(split(Last.out)) : split(Last.out)[i] \in changed_words
     IN /\ (results.meta # <<>> /\ vocab) => results.changed
        /\ ~vocab => results.changed = before.changed

\* C8: with state=present and a verb of the safe set no probe is called: the
\* one process of the run is the configured verb.
C8_SafeVerbNoProbe ==
  (state = "present" /\ command \in safe_commands) =>
     /\ \A i \in 1..Len(calls) : ~calls[i].exists
     /\ pc = "done" => (Len(calls) = 1 /\ Vector(calls[1])[1] = command)

\* C9: with resource types set, a probe's vector starts with get, holds the
\* first resource type and no other, holds no key=value pair and ends with
\* --no-headers; a verb's vector holds all resource types in order, then the
\* name, then all key=value pairs in order.
C9_VectorShape ==
  resource # <<>> =>
    \A i \in 1..Len(calls) :
       LET v == Vector(calls[i])
           n == Len(resource)
           k == IF name # "" THEN 1 ELSE 0
       IN IF calls[i].exists
          THEN /\ v[1] = "get"
               /\ v[2] = resource[1]
               /\ \A j \in 3..Len(v) : v[j] \notin Range(resource)
               /\ \A j \in 1..Len(v) : v[j] \notin Range(keyvars)
               /\ v[Len(v)] = "--no-headers"
          ELSE /\ v[1] = command
               /\ SubSeq(v, 2, n + 1) = resource
               /\ name # "" => v[n + 2] = name
               /\ SubSeq(v, n + k + 2, n + k + 1 + Len(keyvars)) = keyvars

C9_Witness ==
  /\ Len(resource) >= 2 /\ keyvars # <<>> /\ name # ""
  /\ Len(calls) = 2 /\ calls[1].exists /\ ~calls[2].exists

\* C10 as stated: with a filter, the probe reports presence exactly when the
\* pattern occurs in the probe's stdout; present (verb not safe) skips the
\* verb exactly then, absent without force calls delete exactly then.
C10_PresenceIffMatch ==
  (filter # <<>> /\ ProbeReturned) =>
     LET match == HasMatch(filter, calls[1].out)
     IN /\ existsRet <=> match
        /\ (state = "present" /\ command \notin safe_commands
              /\ pc \in {"exit_json", "done", "failed"}) => (VerbCalls = {} <=> match)
        /\ (state = "absent" /\ ~force /\ pc \in {"exit_json", "done", "failed"}) =>
              ((Len(calls) = 2 /\ Vector(calls[2])[1] = "delete") <=> match)

\* C10 amended: with a filter, the probe reports presence exactly when the
\* pattern occurs in the probe's stdout and the probe did not exit non-zero
\* with a stderr ending in 'not found' (then it reports absence whatever it
\* printed); present (verb not safe) skips the verb exactly then, absent
\* without force calls delete exactly then.
C10_PresenceIffClassifiedMatch ==
  (filter # <<>> /\ ProbeReturned) =>
     LET match == /\ HasMatch(filter, calls[1].out)
                  /\ ~(calls[1].rc # 0 /\ EndsNotFound(calls[1].err))
     IN /\ existsRet <=> match
        /\ (state = "present" /\ command \notin safe_commands
              /\ pc \in {"exit_json", "done", "failed"}) => (VerbCalls = {} <=> match)
        /\ (state = "absent" /\ ~force /\ pc \in {"exit_json", "done", "failed"}) =>
              ((Len(calls) = 2 /\ Vector(calls[2])[1] = "delete") <=> match)

C10_Witness ==
  /\ filter # <<>> /\ ProbeReturned
  /\ state = "absent" /\ ~force
  /\ HasMatch(filter, calls[1].out)
  /\ Len(calls) = 2 /\ Vector(calls[2])[1] = "delete"
  /\ pc = "done"

====
